---- MODULE Spec2Model ----
(***************************************************************************)
(* BackgroundWorker<Input, Output> (src/src/lib.rs): an owner thread that  *)
(* calls enque / enque_vec / pop / pop_vec / join on one queue instance,   *)
(* and the worker threads that create_thread spawns.  The owner's calls    *)
(* are sequential (every method takes &mut self); each call is split at    *)
(* its lock acquisitions, the worker's closure at every point where it     *)
(* can be interleaved with the owner.                                      *)
(***************************************************************************)
EXTENDS Integers, Sequences, FiniteSets, TLC

\* ---- bounds of the model
MaxOps == 4      \* calls the owner makes
MaxEnq == 2      \* values the owner enqueues in total
MaxBuf == 2      \* length of the buffer handed to pop_vec

\* ---- value domains
\* Input values are tokens: the k-th value the owner enqueues is k.  The code
\* moves values and never inspects one, so distinct tokens show every
\* reordering, loss or duplication.
Inputs == 1..MaxEnq
Outputs == {10 * x : x \in Inputs}
\* the user's fn(Input) -> Output: an injective one and a constant one
Transforms == {[x \in Inputs |-> 10 * x], [x \in Inputs |-> 10]}
\* what a pop_vec buffer of n slots holds before the call
Prior(n) == [k \in 1..n |-> 90 + k]
None == -1                  \* Option::None (a handle, a popped value)
Free == 0                   \* a Mutex nobody holds
Poisoned == -2              \* a Mutex whose guard was dropped by a panicking thread
Workers == 1..MaxOps        \* thread ids, in spawn order

VARIABLES
    function,        \* fn(Input) -> Output
    thread_handle,   \* Option<JoinHandle<()>>: None or the worker's id
    outqueue,        \* VecDeque<Output>
    inqueue,         \* VecDeque<Input>
    thread_dead,     \* AtomicBool
    inlock,          \* holder of the inqueue Mutex (Free or a worker)
    outlock,         \* holder of the outqueue Mutex (Free or a worker)
    wpc,             \* each worker's position in the closure of create_thread
    data,            \* each worker's `data` binding of the while-let
    pc,              \* the owner's position
    values,          \* enque / enque_vec: values still to push
    buffer,          \* pop_vec: the caller's buffer
    i,               \* pop_vec: loop index (0-based, as in the source)
    ret,             \* value returned by the owner's last pop / pop_vec
    y,               \* join: the handle being joined
    ops,             \* history: names of the owner's calls, in order
    enqd,            \* history: every value pushed to inqueue, in order
    popped,          \* history: every value popped from outqueue, in order
    mark             \* history: snapshots taken at calls and spawns

vars == <<function, thread_handle, outqueue, inqueue, thread_dead, inlock, outlock,
          wpc, data, pc, values, buffer, i, ret, y, ops, enqd, popped, mark>>

shared == <<function, outqueue, inqueue, thread_dead, inlock, outlock>>
workerVars == <<wpc, data>>
ownerLocals == <<values, buffer, i, ret, y>>
history == <<ops, enqd, popped, mark>>

\* number of values some worker has appended to outqueue so far
Processed == Len(popped) + Len(outqueue)

\* workers that have been spawned
Spawned == {w \in Workers : wpc[w] # "unborn"}

\* workers inside the run loop: spawned, and have not yet seen inqueue empty
InLoop == {w \in Workers : wpc[w] \in {"lock_in", "lock_out", "call"}}

Map(f, s) == [k \in 1..Len(s) |-> f[s[k]]]

Min(a, b) == IF a < b THEN a ELSE b

\* the values workers hold between pop_front and push_back, by thread id
RECURSIVE InFlightFrom(_)
InFlightFrom(w) ==
    IF w > MaxOps THEN <<>>
    ELSE (IF data[w] = None THEN <<>> ELSE <<data[w]>>) \o InFlightFrom(w + 1)

InFlight == InFlightFrom(1)

LastOp == IF ops = <<>> THEN "new" ELSE ops[Len(ops)]

\* spawn, inq: Len(enqd) and inqueue when the latest worker was spawned;
\* out0, buf0, proc0: outqueue, buffer and Processed when pop_vec was called
NoMark == [spawn |-> 0, inq |-> <<>>, out0 |-> <<>>, buf0 |-> <<>>, proc0 |-> 0]

\* BackgroundWorker::new(func)
Init ==
    /\ function \in Transforms
    /\ thread_handle = None
    /\ outqueue = <<>>
    /\ inqueue = <<>>
    /\ thread_dead = TRUE
    /\ inlock = Free
    /\ outlock = Free
    /\ wpc = [w \in Workers |-> "unborn"]
    /\ data = [w \in Workers |-> None]
    /\ pc = "idle"
    /\ values = <<>>
    /\ buffer = <<>>
    /\ i = 0
    /\ ret = None
    /\ y = None
    /\ ops = <<>>
    /\ enqd = <<>>
    /\ popped = <<>>
    /\ mark = NoMark

\* ------------------------------------------------------------------------
\* The owner's calls

\* the owner calls `name`; what the previous call left in its locals is gone
Call(name, vals, buf, r) ==
    /\ pc = "idle"
    /\ Len(ops) < MaxOps
    /\ ops' = Append(ops, name)
    /\ pc' = name
    /\ values' = vals
    /\ buffer' = buf
    /\ i' = 0
    /\ ret' = r
    /\ y' = None
    /\ mark' = [mark EXCEPT !.out0 = IF name = "pop_vec" THEN outqueue ELSE <<>>,
                            !.buf0 = buf,
                            !.proc0 = IF name = "pop_vec" THEN Processed ELSE 0]

\* enque(value): entry
enque_call ==
    /\ Len(enqd) < MaxEnq
    /\ Call("enque", <<Len(enqd) + 1>>, <<>>, None)
    /\ UNCHANGED <<shared, thread_handle, workerVars, enqd, popped>>

\* self.inqueue.lock().unwrap().push_back(value);
enque ==
    /\ pc = "enque"
    /\ inlock = Free
    /\ inqueue' = Append(inqueue, Head(values))
    /\ enqd' = Append(enqd, Head(values))
    /\ values' = Tail(values)
    /\ pc' = "spawn_thread_if_dead"
    /\ UNCHANGED <<function, outqueue, thread_dead, inlock, outlock, thread_handle,
                   workerVars, buffer, i, ret, y, ops, popped, mark>>

\* enque_vec(values): entry
enque_vec_call ==
    \E n \in 0..(MaxEnq - Len(enqd)) :
        /\ Call("enque_vec", [k \in 1..n |-> Len(enqd) + k], <<>>, None)
        /\ UNCHANGED <<shared, thread_handle, workerVars, enqd, popped>>

\* enque_vec as a loop of enque: a spawn check after every push
enque_vec_spawn_each ==
    /\ pc = "enque_vec"
    /\ IF values # <<>>
       THEN /\ inlock = Free
            /\ inqueue' = Append(inqueue, Head(values))
            /\ enqd' = Append(enqd, Head(values))
            /\ values' = Tail(values)
            /\ pc' = pc
            /\ IF thread_dead
               THEN /\ thread_dead' = FALSE
                    /\ wpc' = [wpc EXCEPT ![Cardinality(Spawned) + 1] = "lock_in"]
                    /\ thread_handle' = Cardinality(Spawned) + 1
                    /\ mark' = [mark EXCEPT !.spawn = Len(enqd'), !.inq = inqueue']
               ELSE UNCHANGED <<thread_dead, wpc, thread_handle, mark>>
       ELSE /\ pc' = "spawn_thread_if_dead"
            /\ UNCHANGED <<inqueue, enqd, values, thread_dead, wpc, thread_handle, mark>>
    /\ UNCHANGED <<function, outqueue, inlock, outlock, data,
                   buffer, i, ret, y, ops, popped>>

\* for i in values { self.inqueue.lock().unwrap().push_back(i); }
enque_vec ==
    /\ pc = "enque_vec"
    /\ IF values # <<>>
       THEN /\ inlock = Free
            /\ inqueue' = Append(inqueue, Head(values))
            /\ enqd' = Append(enqd, Head(values))
            /\ values' = Tail(values)
            /\ pc' = pc
       ELSE /\ pc' = "spawn_thread_if_dead"
            /\ UNCHANGED <<inqueue, enqd, values>>
    /\ UNCHANGED <<function, outqueue, thread_dead, inlock, outlock, thread_handle,
                   workerVars, buffer, i, ret, y, ops, popped, mark>>

\* the next thread id
NewWorker == Cardinality(Spawned) + 1

\* create_thread without its store(false)
create_thread_no_store ==
    /\ thread_dead' = thread_dead
    /\ wpc' = [wpc EXCEPT ![NewWorker] = "lock_in"]
    /\ thread_handle' = NewWorker
    /\ mark' = [mark EXCEPT !.spawn = Len(enqd), !.inq = inqueue]

\* create_thread dropping the JoinHandle instead of keeping it
create_thread_drop_handle ==
    /\ thread_dead' = FALSE
    /\ wpc' = [wpc EXCEPT ![NewWorker] = "lock_in"]
    /\ thread_handle' = thread_handle
    /\ mark' = [mark EXCEPT !.spawn = Len(enqd), !.inq = inqueue]

\* create_thread(): store(false), spawn the closure, keep its handle
create_thread ==
    /\ thread_dead' = FALSE
    /\ wpc' = [wpc EXCEPT ![NewWorker] = "lock_in"]
    /\ thread_handle' = NewWorker
    /\ mark' = [mark EXCEPT !.spawn = Len(enqd), !.inq = inqueue]

\* spawn_thread_if_dead without its load of thread_dead
spawn_thread_unchecked ==
    /\ pc = "spawn_thread_if_dead"
    /\ create_thread
    /\ pc' = "idle"
    /\ UNCHANGED <<function, outqueue, inqueue, inlock, outlock, data,
                   ownerLocals, ops, enqd, popped>>

\* spawn_thread_if_dead(), the last statement of enque and of enque_vec
spawn_thread_if_dead ==
    /\ pc = "spawn_thread_if_dead"
    /\ IF thread_dead
       THEN create_thread
       ELSE UNCHANGED <<thread_dead, wpc, thread_handle, mark>>
    /\ pc' = "idle"
    /\ UNCHANGED <<function, outqueue, inqueue, inlock, outlock, data,
                   ownerLocals, ops, enqd, popped>>

\* pop(): entry
pop_call ==
    /\ Call("pop", <<>>, <<>>, None)
    /\ UNCHANGED <<shared, thread_handle, workerVars, enqd, popped>>

\* self.outqueue.lock().unwrap().pop_front()
pop ==
    /\ pc = "pop"
    /\ outlock = Free
    /\ IF outqueue = <<>>
       THEN /\ ret' = None
            /\ UNCHANGED <<outqueue, popped>>
       ELSE /\ ret' = Head(outqueue)
            /\ outqueue' = Tail(outqueue)
            /\ popped' = Append(popped, Head(outqueue))
    /\ pc' = "idle"
    /\ UNCHANGED <<function, inqueue, thread_dead, inlock, outlock, thread_handle,
                   workerVars, values, buffer, i, y, ops, enqd, mark>>

\* pop_vec(buffer): entry; let mut num_successful = 0;
pop_vec_call ==
    \E n \in 0..MaxBuf :
        /\ Call("pop_vec", <<>>, Prior(n), 0)
        /\ UNCHANGED <<shared, thread_handle, workerVars, enqd, popped>>

\* pop_vec counting every slot, filled or not
pop_vec_count_all ==
    /\ pc = "pop_vec"
    /\ IF i < Len(buffer)
       THEN /\ outlock = Free
            /\ IF outqueue = <<>>
               THEN UNCHANGED <<outqueue, popped, buffer>>
               ELSE /\ buffer' = [buffer EXCEPT ![i + 1] = Head(outqueue)]
                    /\ outqueue' = Tail(outqueue)
                    /\ popped' = Append(popped, Head(outqueue))
            /\ ret' = ret + 1
            /\ i' = i + 1
            /\ pc' = pc
       ELSE /\ pc' = "idle"
            /\ UNCHANGED <<outqueue, popped, buffer, ret, i>>
    /\ UNCHANGED <<function, inqueue, thread_dead, inlock, outlock, thread_handle,
                   workerVars, values, y, ops, enqd, mark>>

\* for i in 0..buffer.len() { if let Some(data) = self.pop() { ... } }  num_successful
pop_vec ==
    /\ pc = "pop_vec"
    /\ IF i < Len(buffer)
       THEN /\ outlock = Free
            /\ IF outqueue = <<>>
               THEN UNCHANGED <<outqueue, popped, buffer, ret>>
               ELSE /\ buffer' = [buffer EXCEPT ![i + 1] = Head(outqueue)]
                    /\ ret' = ret + 1
                    /\ outqueue' = Tail(outqueue)
                    /\ popped' = Append(popped, Head(outqueue))
            /\ i' = i + 1
            /\ pc' = pc
       ELSE /\ pc' = "idle"
            /\ UNCHANGED <<outqueue, popped, buffer, ret, i>>
    /\ UNCHANGED <<function, inqueue, thread_dead, inlock, outlock, thread_handle,
                   workerVars, values, y, ops, enqd, mark>>

\* join(): entry
join_call ==
    /\ Call("join", <<>>, <<>>, None)
    /\ UNCHANGED <<shared, thread_handle, workerVars, enqd, popped>>

\* join without its load of thread_dead: it takes the handle whatever the flag
join_always ==
    /\ pc = "join"
    /\ thread_handle' = None
    /\ y' = thread_handle
    /\ IF thread_handle # None
       THEN pc' = "y.join"
       ELSE pc' = "idle"
    /\ UNCHANGED <<shared, workerVars, values, buffer, i, ret, ops, enqd, popped, mark>>

\* if !thread_dead.load() { swap(&mut x, &mut self.thread_handle); if let Some(y) = x
join ==
    /\ pc = "join"
    /\ IF ~thread_dead
       THEN /\ thread_handle' = None
            /\ y' = thread_handle
            /\ IF thread_handle # None
               THEN pc' = "y.join"
               ELSE pc' = "idle"
       ELSE /\ pc' = "idle"
            /\ UNCHANGED <<thread_handle, y>>
    /\ UNCHANGED <<shared, workerVars, values, buffer, i, ret, ops, enqd, popped, mark>>

\* y.join() returning without waiting for thread y
join_no_wait ==
    /\ pc = "y.join"
    /\ pc' = "idle"
    /\ UNCHANGED <<shared, thread_handle, workerVars, ownerLocals, history>>

\* y.join().unwrap(): returns once thread y has terminated
join_wait ==
    /\ pc = "y.join"
    /\ wpc[y] = "done"
    /\ pc' = "idle"
    /\ UNCHANGED <<shared, thread_handle, workerVars, ownerLocals, history>>

\* ------------------------------------------------------------------------
\* The worker closure of create_thread

\* the worker taking the newest value: pop_back for pop_front
worker_pop_back(w) ==
    /\ wpc[w] = "lock_in"
    /\ inlock = Free
    /\ IF inqueue = <<>>
       THEN /\ wpc' = [wpc EXCEPT ![w] = "store"]
            /\ UNCHANGED <<inqueue, inlock, data>>
       ELSE /\ data' = [data EXCEPT ![w] = inqueue[Len(inqueue)]]
            /\ inqueue' = SubSeq(inqueue, 1, Len(inqueue) - 1)
            /\ inlock' = w
            /\ wpc' = [wpc EXCEPT ![w] = "lock_out"]
    /\ UNCHANGED <<function, outqueue, thread_dead, outlock, thread_handle,
                   pc, ownerLocals, history>>

\* a worker that stays in its loop when it finds inqueue empty
worker_pop_front_wait(w) ==
    /\ wpc[w] = "lock_in"
    /\ inlock = Free
    /\ IF inqueue = <<>>
       THEN UNCHANGED <<wpc, inqueue, inlock, data>>
       ELSE /\ data' = [data EXCEPT ![w] = Head(inqueue)]
            /\ inqueue' = Tail(inqueue)
            /\ inlock' = w
            /\ wpc' = [wpc EXCEPT ![w] = "lock_out"]
    /\ UNCHANGED <<function, outqueue, thread_dead, outlock, thread_handle,
                   pc, ownerLocals, history>>

\* while let Some(data) = inqueue_clone.lock().unwrap().pop_front(): the guard
\* is a temporary of the scrutinee, dropped at the end of the iteration
worker_pop_front(w) ==
    /\ wpc[w] = "lock_in"
    /\ inlock = Free
    /\ IF inqueue = <<>>
       THEN /\ wpc' = [wpc EXCEPT ![w] = "store"]
            /\ UNCHANGED <<inqueue, inlock, data>>
       ELSE /\ data' = [data EXCEPT ![w] = Head(inqueue)]
            /\ inqueue' = Tail(inqueue)
            /\ inlock' = w
            /\ wpc' = [wpc EXCEPT ![w] = "lock_out"]
    /\ UNCHANGED <<function, outqueue, thread_dead, outlock, thread_handle,
                   pc, ownerLocals, history>>

\* outqueue_clone.lock().unwrap(): the receiver, evaluated before the argument
worker_lock_out(w) ==
    /\ wpc[w] = "lock_out"
    /\ outlock = Free
    /\ outlock' = w
    /\ wpc' = [wpc EXCEPT ![w] = "call"]
    /\ UNCHANGED <<function, outqueue, inqueue, thread_dead, inlock, thread_handle,
                   data, pc, ownerLocals, history>>

\* the worker storing its result at the head: push_front for push_back
worker_push_front(w) ==
    /\ wpc[w] = "call"
    /\ outqueue' = <<function[data[w]]>> \o outqueue
    /\ data' = [data EXCEPT ![w] = None]
    /\ outlock' = Free
    /\ inlock' = Free
    /\ wpc' = [wpc EXCEPT ![w] = "lock_in"]
    /\ UNCHANGED <<function, inqueue, thread_dead, thread_handle,
                   pc, ownerLocals, history>>

\* a worker that keeps the inqueue guard past the end of the iteration
worker_push_back_keep(w) ==
    /\ wpc[w] = "call"
    /\ outqueue' = Append(outqueue, function[data[w]])
    /\ data' = [data EXCEPT ![w] = None]
    /\ outlock' = Free
    /\ wpc' = [wpc EXCEPT ![w] = "lock_in"]
    /\ UNCHANGED <<function, inqueue, thread_dead, inlock, thread_handle,
                   pc, ownerLocals, history>>

\* .push_back(func_clone(data)); then both guards are dropped
worker_push_back(w) ==
    /\ wpc[w] = "call"
    /\ outqueue' = Append(outqueue, function[data[w]])
    /\ data' = [data EXCEPT ![w] = None]
    /\ outlock' = Free
    /\ inlock' = Free
    /\ wpc' = [wpc EXCEPT ![w] = "lock_in"]
    /\ UNCHANGED <<function, inqueue, thread_dead, thread_handle,
                   pc, ownerLocals, history>>

\* the worker ending without its store to thread_dead
worker_exit_silently(w) ==
    /\ wpc[w] = "store"
    /\ wpc' = [wpc EXCEPT ![w] = "done"]
    /\ UNCHANGED <<shared, thread_handle, data, pc, ownerLocals, history>>

\* thread_dead_clone.store(true, Ordering::Release); the thread ends
worker_store_dead(w) ==
    /\ wpc[w] = "store"
    /\ thread_dead' = TRUE
    /\ wpc' = [wpc EXCEPT ![w] = "done"]
    /\ UNCHANGED <<function, outqueue, inqueue, inlock, outlock, thread_handle,
                   data, pc, ownerLocals, history>>

\* a panicking worker whose exit path resets the flag
worker_panic_reset(w) ==
    /\ wpc[w] = "call"
    /\ wpc' = [wpc EXCEPT ![w] = "panicked"]
    /\ data' = [data EXCEPT ![w] = None]
    /\ inlock' = Poisoned
    /\ outlock' = Poisoned
    /\ thread_dead' = TRUE
    /\ UNCHANGED <<function, outqueue, inqueue, thread_handle,
                   pc, ownerLocals, history>>

\* func_clone(data) panics: the thread unwinds, `data` is lost, both guards
\* are dropped while panicking, and the store to thread_dead is never reached
worker_panic(w) ==
    /\ wpc[w] = "call"
    /\ wpc' = [wpc EXCEPT ![w] = "panicked"]
    /\ data' = [data EXCEPT ![w] = None]
    /\ inlock' = Poisoned
    /\ outlock' = Poisoned
    /\ UNCHANGED <<function, outqueue, inqueue, thread_dead, thread_handle,
                   pc, ownerLocals, history>>

\* lock().unwrap() on a poisoned Mutex: the owner's call panics
owner_panic ==
    /\ \/ /\ pc = "enque" \/ (pc = "enque_vec" /\ values # <<>>)
          /\ inlock = Poisoned
       \/ /\ pc = "pop" \/ (pc = "pop_vec" /\ i < Len(buffer))
          /\ outlock = Poisoned
    /\ pc' = "panicked"
    /\ UNCHANGED <<shared, thread_handle, workerVars, ownerLocals, history>>

\* y.join().unwrap() on a thread that panicked: Err, and the owner panics
join_panic ==
    /\ pc = "y.join"
    /\ wpc[y] = "panicked"
    /\ pc' = "panicked"
    /\ UNCHANGED <<shared, thread_handle, workerVars, ownerLocals, history>>

Worker(w) ==
    \/ worker_pop_front(w)
    \/ worker_lock_out(w)
    \/ worker_push_back(w)
    \/ worker_store_dead(w)

WorkerStep == \E w \in Workers : Worker(w)

\* the owner's steps inside a call
OwnerStep ==
    \/ enque
    \/ enque_vec
    \/ spawn_thread_if_dead
    \/ pop
    \/ pop_vec
    \/ join
    \/ join_wait

Next ==
    \/ enque_call
    \/ enque
    \/ enque_vec_call
    \/ enque_vec
    \/ spawn_thread_if_dead
    \/ pop_call
    \/ pop
    \/ pop_vec_call
    \/ pop_vec
    \/ join_call
    \/ join
    \/ join_wait
    \/ \E w \in Workers : worker_pop_front(w)
    \/ \E w \in Workers : worker_lock_out(w)
    \/ \E w \in Workers : worker_push_back(w)
    \/ \E w \in Workers : worker_store_dead(w)

Spec == Init /\ [][Next]_vars

\* Both threads are scheduled: a worker that can step does, and the owner
\* finishes the call it is in.  The owner need not make another call.
FairSpec == Spec /\ WF_vars(WorkerStep) /\ WF_vars(OwnerStep)

\* The transform may fail: any call of it may panic.
NextPanic ==
    \/ Next
    \/ \E w \in Workers : worker_panic(w)
    \/ owner_panic
    \/ join_panic

SpecPanic == Init /\ [][NextPanic]_vars

\* ------------------------------------------------------------------------
\* Properties

IsEnq(name) == name \in {"enque", "enque_vec"}

\* the first n values enqueued have been transformed, in order
Done(n) ==
    /\ Processed >= n
    /\ SubSeq(popped \o outqueue, 1, n) = Map(function, SubSeq(enqd, 1, n))

\* C1: when join() has returned, every value enqueued before it has been
\* transformed and is in outqueue or was popped; none is left in inqueue or
\* in flight.
JoinSynchronizes ==
    (pc = "idle" /\ LastOp = "join") =>
        /\ inqueue = <<>>
        /\ InFlight = <<>>
        /\ Done(Len(enqd))

\* C2: on a fresh queue, enque_vec([i1..iN]); join(); and then pop_vec into an
\* N-slot buffer returns N and fills it with [f(i1)..f(iN)], and N pops
\* return f(i1), .., f(iN) in that order.
BatchRoundTrip ==
    /\ (pc = "idle" /\ ops = <<"enque_vec", "join">>) =>
            outqueue = Map(function, enqd)
    /\ (pc = "idle" /\ ops = <<"enque_vec", "join", "pop_vec">>
            /\ Len(buffer) = Len(enqd)) =>
            /\ ret = Len(enqd)
            /\ buffer = Map(function, enqd)
    /\ \A k \in 1..Len(enqd) :
        (pc = "idle" /\ ops = <<"enque_vec", "join">> \o [j \in 1..k |-> "pop"]) =>
            /\ ret = function[enqd[k]]
            /\ popped = Map(function, SubSeq(enqd, 1, k))

BatchRoundTripWitness ==
    /\ pc = "idle"
    /\ ops = <<"enque_vec", "join", "pop_vec">>
    /\ Len(enqd) = MaxEnq
    /\ ret = MaxEnq
    /\ buffer = Map(function, enqd)
    /\ function[1] # function[2]

\* C3: on a fresh queue, enque(x); join(); makes the next pop() return
\* Some(f(x)) and the pop() after it None.
SingleRoundTrip ==
    /\ (pc = "idle" /\ ops = <<"enque", "join", "pop">>) =>
            ret = function[enqd[1]]
    /\ (pc = "idle" /\ ops = <<"enque", "join", "pop", "pop">>) =>
            /\ ret = None
            /\ popped = <<function[enqd[1]]>>

SingleRoundTripWitness ==
    /\ pc = "idle"
    /\ ops = <<"enque", "join", "pop", "pop">>
    /\ ret = None
    /\ popped = <<function[1]>>

\* C4: at most one worker is inside its run loop at any time.
AtMostOneWorker == Cardinality(InLoop) <= 1

\* a second enqueue has made its spawn check while the first worker was
\* still in its loop, and a later one has spawned the second worker
AtMostOneWorkerWitness ==
    /\ Cardinality(Spawned) = 2
    /\ Cardinality({k \in DOMAIN ops : IsEnq(ops[k])}) = 3
    /\ wpc[1] = "done"
    /\ wpc[2] = "call"

\* C5: under fair scheduling, every value placed in inqueue is eventually
\* transformed and appended to outqueue, whether or not the owner makes
\* another call.
EveryEnqueuedEventuallyProcessed ==
    \A n \in 1..MaxEnq : (Len(enqd) >= n) ~> (Processed >= n)

\* C6: popped ++ outqueue is f applied to a prefix of the values enqueued, and
\* the rest of them is (the value in flight) ++ inqueue.
EndToEndFIFO ==
    LET out == popped \o outqueue
    IN  /\ Len(out) <= Len(enqd)
        /\ out = Map(function, SubSeq(enqd, 1, Len(out)))
        /\ SubSeq(enqd, Len(out) + 1, Len(enqd)) = InFlight \o inqueue

\* the second worker holds a value while another waits in inqueue
EndToEndFIFOWitness ==
    /\ Cardinality(Spawned) = 2
    /\ wpc[1] = "done"
    /\ data[2] = 1
    /\ inqueue = <<2>>
    /\ function[1] # function[2]

\* C7: a pop() the owner has called can always complete at once: it never
\* waits for the outqueue lock.
PopNeverWaits == (pc = "pop") => ENABLED pop

\* C8: while a worker is invoking the transform, the owner's push to inqueue
\* in enque / enque_vec can proceed.
EnqueNeverWaitsForTransform ==
    ((pc = "enque" \/ (pc = "enque_vec" /\ values # <<>>))
        /\ \E w \in Workers : wpc[w] = "call") => inlock = Free

\* a join() has returned since the last enque / enque_vec before this one
JoinedSinceEnq ==
    \E j \in 1..(Len(ops) - 1) :
        /\ ops[j] = "join"
        /\ \E e \in 1..(j - 1) : IsEnq(ops[e])
        /\ \A k \in (j + 1)..(Len(ops) - 1) : ~IsEnq(ops[k])

\* C9: after an enque / enque_vec and a join() that has returned, thread_dead
\* reads true; the next enque / enque_vec spawns a new worker; and a spawned
\* worker transforms every value that is in inqueue when it is spawned, in
\* inqueue order, with no further call.
AutoRespawn ==
    /\ []((pc = "idle" /\ LastOp = "join") => thread_dead)
    /\ [][(pc = "spawn_thread_if_dead" /\ JoinedSinceEnq) =>
            /\ wpc'[NewWorker] = "lock_in"
            /\ thread_handle' = NewWorker
            /\ ~thread_dead'
            /\ mark'.inq = inqueue]_vars
    /\ [](mark.inq = SubSeq(enqd, mark.spawn - Len(mark.inq) + 1, mark.spawn))
    /\ \A n \in 1..MaxEnq : (mark.spawn = n) ~> Done(n)

\* the second worker, spawned by an enque after a join, found a value left
\* behind by the first worker and the new one, and has transformed both
AutoRespawnWitness ==
    /\ pc = "idle"
    /\ ops = <<"enque_vec", "enque", "join", "enque">>
    /\ Cardinality(Spawned) = 2
    /\ mark.inq = <<1, 2>>
    /\ wpc[2] = "done"
    /\ outqueue = Map(function, enqd)

\* C10: pop_vec(buffer) with no worker appending during the call, m values in
\* outqueue and n slots: returns k = min(m, n), fills slots 0..k-1 with the
\* first k values, leaves the other slots as they were and the other m-k
\* values in outqueue.
PopVecPostcondition ==
    (pc = "idle" /\ LastOp = "pop_vec" /\ Processed = mark.proc0) =>
        LET m == Len(mark.out0)
            n == Len(mark.buf0)
            k == Min(m, n)
        IN  /\ ret = k
            /\ Len(buffer) = n
            /\ \A j \in 1..k : buffer[j] = mark.out0[j]
            /\ \A j \in (k + 1)..n : buffer[j] = mark.buf0[j]
            /\ outqueue = SubSeq(mark.out0, k + 1, m)

\* a partial fill: one value for two slots
PopVecPostconditionWitness ==
    /\ pc = "idle"
    /\ LastOp = "pop_vec"
    /\ Processed = mark.proc0
    /\ Len(mark.out0) = 1
    /\ Len(mark.buf0) = 2
    /\ ret = 1
    /\ buffer[2] = Prior(2)[2]

\* C11: right after new() both buffers are empty, thread_dead reads true, the
\* handle slot is empty and no worker exists; and a join() called while
\* thread_dead reads true returns at once and leaves the handle slot, the
\* flag and both buffers as they were.
IdleQueue ==
    /\ [](ops = <<>> =>
            /\ inqueue = <<>>
            /\ outqueue = <<>>
            /\ thread_dead
            /\ thread_handle = None
            /\ Spawned = {})
    /\ [][(pc = "join" /\ thread_dead) =>
            /\ pc' = "idle"
            /\ UNCHANGED <<thread_handle, thread_dead, inqueue, outqueue>>]_vars

\* a join() that found the flag dead after a worker has run: the handle of
\* that worker is still in its slot, its output still in outqueue
IdleQueueWitness ==
    /\ pc = "idle"
    /\ LastOp = "join"
    /\ thread_dead
    /\ thread_handle = 1
    /\ y = None
    /\ outqueue # <<>>

\* some worker's call of the transform has panicked
Panicked == \E w \in Workers : wpc[w] = "panicked"

JoinTerminates == (pc \in {"join", "y.join"}) ~> (pc = "idle")

\* a join() that took the handle of a running worker, waited, and returned
JoinTerminatesWitness ==
    /\ pc = "idle"
    /\ LastOp = "join"
    /\ y = 1
    /\ wpc[1] = "done"
    /\ Len(outqueue) = MaxEnq

\* C14: while a worker is invoking the transform it holds neither the
\* inqueue lock nor the outqueue lock.
TransformOutsideLocks ==
    \A w \in Workers : wpc[w] = "call" => (inlock # w /\ outlock # w)

\* C15: no thread holds the inqueue lock and the outqueue lock at once.
LocksNeverHeldTogether ==
    \A w \in Workers : ~(inlock = w /\ outlock = w)

\* a call of the owner has not returned, or a worker has not ended
Unfinished ==
    \/ pc # "idle"
    \/ \E w \in Workers : wpc[w] \notin {"unborn", "done"}

\* C16: with a transform that returns, whenever a call or a worker is
\* unfinished some thread can take a step: no thread waits for ever for a
\* lock, or for a thread to end, that the other cannot release or reach.
DeadlockFree == Unfinished => ENABLED (OwnerStep \/ WorkerStep)

\* the owner waits for the outqueue lock while the worker holds both locks
DeadlockFreeWitness ==
    /\ pc = "pop"
    /\ inlock = 1
    /\ outlock = 1
    /\ wpc[1] = "call"
    /\ ~ENABLED OwnerStep

\* C17: enque_vec pushes its values to the tail of inqueue in their order,
\* all of them before its spawn check; the check is made once, as the last
\* step of the call, and spawns at most one worker, so a worker the call
\* spawns starts with the whole batch in inqueue.
EnqueVecSpawnsOnce ==
    /\ [][(pc = "enque_vec" /\ values' # values) =>
            /\ values' = Tail(values)
            /\ inqueue' = Append(inqueue, Head(values))
            /\ pc' = "enque_vec"]_vars
    /\ [](pc = "spawn_thread_if_dead" => values = <<>>)
    /\ [][Spawned' # Spawned =>
            /\ pc = "spawn_thread_if_dead"
            /\ pc' = "idle"
            /\ Cardinality(Spawned') = Cardinality(Spawned) + 1
            /\ mark'.inq = inqueue]_vars
    /\ [][(pc = "spawn_thread_if_dead" /\ pc' # pc) => pc' = "idle"]_vars

\* one enque_vec of two values on a fresh queue: its worker was spawned with
\* both in inqueue
EnqueVecSpawnsOnceWitness ==
    /\ pc = "idle"
    /\ ops = <<"enque_vec">>
    /\ mark.inq = <<1, 2>>
    /\ Cardinality(Spawned) = 1

\* C18: when a join() that found thread_dead false and waited has returned,
\* the handle slot is empty, thread_dead reads true, no worker is in its run
\* loop and inqueue is empty.
JoinWaitPostcondition ==
    (pc = "idle" /\ LastOp = "join" /\ y # None) =>
        /\ thread_handle = None
        /\ thread_dead
        /\ InLoop = {}
        /\ inqueue = <<>>

HandleTracksWorker ==
    /\ []((pc = "idle" /\ ~thread_dead) => thread_handle = Cardinality(Spawned))
    /\ [][(pc = "join" /\ ~thread_dead /\ pc' # pc) =>
            /\ pc' = "y.join"
            /\ y' = Cardinality(Spawned)
            /\ thread_handle' = None]_vars
    /\ []((pc = "idle" /\ LastOp = "join") =>
            \A w \in Workers : wpc[w] \in {"unborn", "done"})

\* after a join and the end of the first worker, an enque has spawned the
\* second: the slot holds its handle while it runs
HandleTracksWorkerWitness ==
    /\ pc = "idle"
    /\ ops = <<"enque", "join", "enque">>
    /\ ~thread_dead
    /\ thread_handle = 2
    /\ wpc[1] = "done"
    /\ wpc[2] = "call"
====
